---- MODULE Spec2Model ----
(***************************************************************************)
(* A model of the HackerNews parser: the generation-1 and generation-2     *)
(* parsers (src/src/hackernews_parser/hackernews_parser_v1.py, _v2.py),    *)
(* their entities (entities/v1.py, entities/v2.py) and the version router  *)
(* of the HTTP API (api.py).                                               *)
(*                                                                         *)
(* Python values are tagged records: [t |-> "null"], [t |-> "str", v],     *)
(* [t |-> "num", v], [t |-> "list", v] and [t |-> "obj", v], where a       *)
(* string is a sequence of tokens ("" is <<>>), a list a sequence of       *)
(* values and an object a function from its keys to values.  A dataclass   *)
(* instance is a record with a cls field.  An evaluation either returns    *)
(* (Ok) or raises (Raise), and the first raise in Python's evaluation      *)
(* order is the one that propagates.                                       *)
(***************************************************************************)
EXTENDS Integers, Sequences, FiniteSets, TLC

VARIABLES
    data,        \* the JSON object handed to the parsers / posted to /parse
    defects,     \* how many defects the caller has put into data
    v1_data,     \* outcome of HackerNewsParserV1().parse(data=data), or NotRun
    v2_data,     \* outcome of HackerNewsParserV2().parse(data=data), or NotRun
    pc,          \* position of the POST /parse handler
    parser,      \* the parser get_parser returned to the handler: "none", "V1", "V2"
    parsed_data, \* outcome of parser.parse(data) inside the handler, or NotRun
    response,    \* the handler's answer: [status, body] or [status, detail]
    heap,        \* the parser instances constructed so far, in order
    history,     \* the parse calls made on the instance heap[1], in order
    requests,    \* the POST /parse requests a server is handling
    store        \* the caller's list objects the payload refers to, by address

vars == <<data, defects, v1_data, v2_data, pc, parser, parsed_data, response,
          heap, history, requests, store>>

----------------------------------------------------------------------------
(* Bounds of the model *)

MaxStories == 2
MaxComments == 2
MaxDefects == 1
MaxCalls == 3
MaxRequests == 2
MaxMutations == 2

----------------------------------------------------------------------------
(* Python / JSON values *)

None == [t |-> "null"]
JStr(s) == [t |-> "str", v |-> s]
JNum(n) == [t |-> "num", v |-> n]
JList(q) == [t |-> "list", v |-> q]
JObj(f) == [t |-> "obj", v |-> f]

EmptyList == JList(<<>>)
EmptyDict == JObj(<<>>)

IsDataclass(x) == "cls" \in DOMAIN x

\* bool(x): None, "", 0, [] and {} are false; a dataclass instance is true
Truthy(x) ==
    IF IsDataclass(x) THEN TRUE
    ELSE CASE x.t = "null" -> FALSE
           [] x.t = "str"  -> Len(x.v) # 0
           [] x.t = "num"  -> x.v # 0
           [] x.t = "list" -> Len(x.v) # 0
           [] x.t = "obj"  -> DOMAIN x.v # {}

\* type(x).__name__
TypeName(x) ==
    CASE x.t = "null" -> "NoneType"
      [] x.t = "str"  -> "str"
      [] x.t = "num"  -> "int"
      [] x.t = "list" -> "list"
      [] x.t = "obj"  -> "dict"

\* str(n) of a small integer
IntStr(n) ==
    IF n \in 0..9
    THEN <<"0", "1", "2", "3", "4", "5", "6", "7", "8", "9">>[n + 1]
    ELSE "int"

\* f-string formatting of a value: {x}
FormatValue(x) ==
    CASE x.t = "str"  -> x.v
      [] x.t = "null" -> <<"None">>
      [] x.t = "num"  -> <<IntStr(x.v)>>
      [] x.t = "list" -> IF x.v = <<>> THEN <<"[]">> ELSE <<"[", "...", "]">>
      [] x.t = "obj"  -> IF DOMAIN x.v = {} THEN <<"{}">> ELSE <<"{", "...", "}">>

----------------------------------------------------------------------------
(* Outcomes of an evaluation, and the exceptions the code can raise *)

Ok(x) == [ok |-> TRUE, val |-> x]
Raise(e) == [ok |-> FALSE, exc |-> e]
NotRun == [ok |-> FALSE, exc |-> [type |-> "NotRun", msg |-> <<>>]]

\* str(KeyError(k)) is repr(k)
KeyError(k) == [type |-> "KeyError", msg |-> <<"'", k, "'">>]
TypeError(m) == [type |-> "TypeError", msg |-> m]
AttributeError(m) == [type |-> "AttributeError", msg |-> m]
ValueError(m) == [type |-> "ValueError", msg |-> m]

\* The first raise among evaluations made in order
FirstRaise(rs) ==
    rs[CHOOSE i \in DOMAIN rs : ~rs[i].ok /\ \A j \in 1..(i - 1) : rs[j].ok]

AllOk(rs) == \A i \in DOMAIN rs : rs[i].ok

Vals(rs) == [i \in DOMAIN rs |-> rs[i].val]

\* r evaluated, then F of its value: a raise of r propagates
Then(r, F(_)) == IF r.ok THEN F(r.val) ELSE r

\* The arguments rs of a constructor evaluated in order, then the constructor
Construct(rs, Build(_)) ==
    IF AllOk(rs) THEN Ok(Build(Vals(rs))) ELSE FirstRaise(rs)

\* d[k]
Subscript(d, k) ==
    CASE d.t = "obj" ->
            IF k \in DOMAIN d.v THEN Ok(d.v[k]) ELSE Raise(KeyError(k))
      [] d.t = "list" ->
            Raise(TypeError(<<"list indices must be integers or slices, not str">>))
      [] d.t = "str" ->
            Raise(TypeError(<<"string indices must be integers, not 'str'">>))
      [] OTHER ->
            Raise(TypeError(<<"'", TypeName(d), "' object is not subscriptable">>))

\* d.get(k, default)
DictGet(d, k, default) ==
    IF d.t = "obj"
    THEN Ok(IF k \in DOMAIN d.v THEN d.v[k] ELSE default)
    ELSE Raise(AttributeError(<<"'", TypeName(d), "' object has no attribute 'get'">>))

\* A set of strings as a sequence (the keys of a dict, when iterated)
RECURSIVE KeySeq(_)
KeySeq(S) ==
    IF S = {} THEN <<>>
    ELSE LET k == CHOOSE x \in S : TRUE IN <<JStr(<<k>>)>> \o KeySeq(S \ {k})

\* Iteration that takes None for an empty list, as "for item in x or []" does
Iterate_NullAsEmpty(x) ==
    CASE x.t = "list" -> Ok(x.v)
      [] x.t = "obj"  -> Ok(KeySeq(DOMAIN x.v))
      [] x.t = "str"  -> Ok([i \in DOMAIN x.v |-> JStr(<<x.v[i]>>)])
      [] x.t = "null" -> Ok(<<>>)
      [] OTHER -> Raise(TypeError(<<"'", TypeName(x), "' object is not iterable">>))

\* for item in x: the items, in order
Iterate(x) ==
    CASE x.t = "list" -> Ok(x.v)
      [] x.t = "obj"  -> Ok(KeySeq(DOMAIN x.v))
      [] x.t = "str"  -> Ok([i \in DOMAIN x.v |-> JStr(<<x.v[i]>>)])
      [] OTHER -> Raise(TypeError(<<"'", TypeName(x), "' object is not iterable">>))

\* [Parse(item) for item in x]
Comprehension(x, Parse(_)) ==
    Then(Iterate(x),
         LAMBDA items : Construct([i \in DOMAIN items |-> Parse(items[i])], JList))

----------------------------------------------------------------------------
(* entities/v1.py *)

V1Comment(id, author, timestamp, text) ==
    [cls |-> "v1.HackerNewsComment",
     id |-> id, author |-> author, timestamp |-> timestamp, text |-> text]

V1Story(id, title, url, domain, author, timestamp, points, rank, comments) ==
    [cls |-> "v1.HackerNewsStory",
     id |-> id, title |-> title, url |-> url, domain |-> domain,
     author |-> author, timestamp |-> timestamp, points |-> points,
     rank |-> rank, comments |-> comments]

\* The generation-1 dataset declared with the metrics field of generation 2
V1Data_WithMetrics(version, timestamp, stories) ==
    [cls |-> "v1.HackerNewsData",
     version |-> version, timestamp |-> timestamp, stories |-> stories,
     metrics |-> None]

V1Data(version, timestamp, stories) ==
    [cls |-> "v1.HackerNewsData",
     version |-> version, timestamp |-> timestamp, stories |-> stories]

----------------------------------------------------------------------------
(* Sample datasets (tests/load_test_data.py) and the data files *)

DelKey(d, k) == JObj([x \in (DOMAIN d.v) \ {k} |-> d.v[x]])
SetKey(d, k, x) == JObj([y \in (DOMAIN d.v) \cup {k} |-> IF y = k THEN x ELSE d.v[y]])

SampleSentiment(n) ==
    JObj([score |-> JNum(n), confidence |-> JNum(n + 1),
          aspects |-> JList(<<JStr(<<"positive">>), JStr(<<"informative">>)>>)])

SampleComment(gen, n) ==
    LET shared == [id |-> JStr(<<"c.id", n>>), author |-> JStr(<<"c.author", n>>),
                   timestamp |-> JStr(<<"c.timestamp", n>>),
                   text |-> JStr(<<"c.text", n>>)]
    IN JObj(IF gen = 2 THEN shared @@ [sentiment |-> SampleSentiment(n + 2)]
            ELSE shared)

\* The aggregates are free input values and here disagree with what the
\* payload holds
SampleRelationships ==
    JObj([comment_count |-> JNum(7), engagement_score |-> JNum(5),
          comment_sentiment_avg |-> JNum(3)])

SampleMetrics ==
    JObj([total_stories |-> JNum(9), total_comments |-> JNum(8),
          avg_sentiment |-> JNum(6), engagement_score |-> JNum(4)])

\* Story i with nc comments
SampleStory(gen, i, nc) ==
    LET shared == [id |-> JStr(<<"s.id", i>>), title |-> JStr(<<"s.title", i>>),
                   url |-> JStr(<<"s.url", i>>), domain |-> JStr(<<"s.domain", i>>),
                   author |-> JStr(<<"s.author", i>>),
                   timestamp |-> JStr(<<"s.timestamp", i>>),
                   points |-> JNum(100 + i), rank |-> JNum(i),
                   comments |-> JList([j \in 1..nc |-> SampleComment(gen, 10 * i + j)])]
    IN JObj(IF gen = 2
            THEN shared @@ [sentiment |-> SampleSentiment(i),
                            relationships |-> SampleRelationships]
            ELSE shared)

\* A dataset of ns stories, story i with max(nc - i + 1, 0) comments
SampleData(gen, ns, nc) ==
    LET shared == [version |-> JStr(<<IF gen = 2 THEN "2.0" ELSE "1.0">>),
                   timestamp |-> JStr(<<"d.timestamp", 0>>),
                   stories |-> JList([i \in 1..ns |->
                       SampleStory(gen, i, IF nc >= i THEN nc - i + 1 ELSE 0)])]
    IN JObj(IF gen = 2
            THEN shared @@ [metrics |-> SampleMetrics]
            ELSE shared)

WellFormed ==
    {SampleData(gen, ns, nc) : gen \in {1, 2}, ns \in 0..MaxStories,
                               nc \in 0..MaxComments}

\* The name of the data file of a sample dataset
FilePath(gen, ns, nc) ==
    JStr(<<"data/hackernews_v", gen, "_", ns, "_", nc, ".json">>)

\* The data files: the smallest and the largest sample datasets of each
\* generation, and one whose dataset lacks stories
DataFiles ==
    {[path |-> FilePath(gen, ns, nc), json |-> SampleData(gen, ns, nc)] :
        gen \in {1, 2}, ns \in {0, MaxStories}, nc \in {0, MaxComments}}
    \cup {[path |-> JStr(<<"data/no_stories.json">>),
           json |-> DelKey(SampleData(1, 0, 0), "stories")]}

\* A path that names no file
NoSuchFile == JStr(<<"data/missing.json">>)

FileNotFoundError(path) ==
    [type |-> "FileNotFoundError",
     msg |-> <<"[Errno 2] No such file or directory: '">> \o path.v \o <<"'">>]

\* utils.load_json: the JSON content of the file
load_json(data_path) ==
    IF \E f \in DataFiles : f.path = data_path
    THEN Ok((CHOOSE f \in DataFiles : f.path = data_path).json)
    ELSE Raise(FileNotFoundError(data_path))

----------------------------------------------------------------------------
(* hackernews_parser_v1.py *)

\* HackerNewsParserV1.__init__
NewParser(data_path) == [data_path |-> data_path, _data |-> None]

\* _load_data with the stored data consulted before the argument
load_data_CacheFirst(self, d) ==
    IF self._data # None
    THEN [self |-> self, res |-> Ok(self._data), read |-> FALSE]
    ELSE IF d # None
    THEN [self |-> [self EXCEPT !._data = d], res |-> Ok(d), read |-> FALSE]
    ELSE IF self.data_path = None
    THEN [self |-> self,
          res |-> Raise(ValueError(
              <<"data is required if data_path is not provided">>)),
          read |-> FALSE]
    ELSE IF load_json(self.data_path).ok
    THEN [self |-> [self EXCEPT !._data = load_json(self.data_path).val],
          res |-> load_json(self.data_path), read |-> TRUE]
    ELSE [self |-> self, res |-> load_json(self.data_path), read |-> FALSE]

\* _load_data that reads the file without storing it in self._data
load_data_PathNotStored(self, d) ==
    IF d # None
    THEN [self |-> [self EXCEPT !._data = d], res |-> Ok(d), read |-> FALSE]
    ELSE IF self._data = None
    THEN IF self.data_path = None
         THEN [self |-> self,
               res |-> Raise(ValueError(
                   <<"data is required if data_path is not provided">>)),
               read |-> FALSE]
         ELSE IF load_json(self.data_path).ok
         THEN [self |-> self, res |-> Ok(self._data), read |-> TRUE]
         ELSE [self |-> self, res |-> load_json(self.data_path), read |-> FALSE]
    ELSE [self |-> self, res |-> Ok(self._data), read |-> FALSE]

\* _load_data that reads the file again on every call without data
load_data_AlwaysReload(self, d) ==
    IF d # None
    THEN [self |-> [self EXCEPT !._data = d], res |-> Ok(d), read |-> FALSE]
    ELSE IF self.data_path = None
    THEN [self |-> self,
          res |-> Raise(ValueError(
              <<"data is required if data_path is not provided">>)),
          read |-> FALSE]
    ELSE IF load_json(self.data_path).ok
    THEN [self |-> [self EXCEPT !._data = load_json(self.data_path).val],
          res |-> load_json(self.data_path), read |-> TRUE]
    ELSE [self |-> self, res |-> load_json(self.data_path), read |-> FALSE]

\* _load_data that hands inline data on without keeping it in self._data
load_data_InlineNotStored(self, d) ==
    IF d # None
    THEN [self |-> self, res |-> Ok(d), read |-> FALSE]
    ELSE IF self._data = None
    THEN IF self.data_path = None
         THEN [self |-> self,
               res |-> Raise(ValueError(
                   <<"data is required if data_path is not provided">>)),
               read |-> FALSE]
         ELSE IF load_json(self.data_path).ok
         THEN [self |-> [self EXCEPT !._data = load_json(self.data_path).val],
               res |-> load_json(self.data_path), read |-> TRUE]
         ELSE [self |-> self, res |-> load_json(self.data_path), read |-> FALSE]
    ELSE [self |-> self, res |-> Ok(self._data), read |-> FALSE]

\* HackerNewsParserV1._load_data: the instance after the call, the outcome and
\* whether the call read the content of the file at data_path
\* (the source's message quotes both names with backticks)
load_data(self, d) ==
    IF d # None
    THEN [self |-> [self EXCEPT !._data = d], res |-> Ok(d), read |-> FALSE]
    ELSE IF self._data = None
    THEN IF self.data_path = None
         THEN [self |-> self,
               res |-> Raise(ValueError(
                   <<"data is required if data_path is not provided">>)),
               read |-> FALSE]
         ELSE IF load_json(self.data_path).ok
         THEN [self |-> [self EXCEPT !._data = load_json(self.data_path).val],
               res |-> load_json(self.data_path), read |-> TRUE]
         ELSE [self |-> self, res |-> load_json(self.data_path), read |-> FALSE]
    ELSE [self |-> self, res |-> Ok(self._data), read |-> FALSE]

\* HackerNewsParserV1._parse_comment
V1_parse_comment(comment_data) ==
    Construct(<<Subscript(comment_data, "id"),
                Subscript(comment_data, "author"),
                Subscript(comment_data, "timestamp"),
                Subscript(comment_data, "text")>>,
              LAMBDA a : V1Comment(a[1], a[2], a[3], a[4]))

\* The comments read with story_data["comments"]: required like the other keys
V1_parse_comments_Required(story_data) ==
    Then(Subscript(story_data, "comments"),
         LAMBDA comments : Comprehension(comments, V1_parse_comment))

\* [self._parse_comment(comment) for comment in story_data.get("comments", [])]
V1_parse_comments(story_data) ==
    Then(DictGet(story_data, "comments", EmptyList),
         LAMBDA comments : Comprehension(comments, V1_parse_comment))

\* _parse_story with url and domain taken from each other's key
V1_parse_story_UrlDomainSwapped(story_data) ==
    Construct(<<Subscript(story_data, "id"),
                Subscript(story_data, "title"),
                Subscript(story_data, "url"),
                Subscript(story_data, "domain"),
                Subscript(story_data, "author"),
                Subscript(story_data, "timestamp"),
                Subscript(story_data, "points"),
                Subscript(story_data, "rank"),
                V1_parse_comments(story_data)>>,
              LAMBDA a : V1Story(a[1], a[2], a[4], a[3], a[5], a[6], a[7], a[8],
                                 a[9]))

\* HackerNewsParserV1._parse_story
V1_parse_story(story_data) ==
    Construct(<<Subscript(story_data, "id"),
                Subscript(story_data, "title"),
                Subscript(story_data, "url"),
                Subscript(story_data, "domain"),
                Subscript(story_data, "author"),
                Subscript(story_data, "timestamp"),
                Subscript(story_data, "points"),
                Subscript(story_data, "rank"),
                V1_parse_comments(story_data)>>,
              LAMBDA a : V1Story(a[1], a[2], a[3], a[4], a[5], a[6], a[7], a[8],
                                 a[9]))

\* The stories read with data.get("stories", []): defaulted like comments
V1_parse_stories_Defaulted(d) ==
    Then(DictGet(d, "stories", EmptyList),
         LAMBDA stories : Comprehension(stories, V1_parse_story))

\* [self._parse_story(story) for story in data["stories"]]
V1_parse_stories(d) ==
    Then(Subscript(d, "stories"),
         LAMBDA stories : Comprehension(stories, V1_parse_story))

\* The HackerNewsData(...) expression of HackerNewsParserV1.parse
V1_parse_loaded(d) ==
    Construct(<<Subscript(d, "version"),
                Subscript(d, "timestamp"),
                V1_parse_stories(d)>>,
              LAMBDA a : V1Data(a[1], a[2], a[3]))

\* HackerNewsParserV1.parse: the instance after the call and the outcome
V1_parse(self, d) ==
    [self |-> load_data(self, d).self,
     res |-> Then(load_data(self, d).res, V1_parse_loaded),
     read |-> load_data(self, d).read]

----------------------------------------------------------------------------
(* entities/v2.py *)

SentimentAnalysis(score, confidence, aspects) ==
    [cls |-> "SentimentAnalysis",
     score |-> score, confidence |-> confidence, aspects |-> aspects]

StoryRelationships(comment_count, engagement_score, comment_sentiment_avg) ==
    [cls |-> "StoryRelationships",
     comment_count |-> comment_count, engagement_score |-> engagement_score,
     comment_sentiment_avg |-> comment_sentiment_avg]

DatasetMetrics(total_stories, total_comments, avg_sentiment, engagement_score) ==
    [cls |-> "DatasetMetrics",
     total_stories |-> total_stories, total_comments |-> total_comments,
     avg_sentiment |-> avg_sentiment, engagement_score |-> engagement_score]

V2Comment(id, author, timestamp, text, sentiment) ==
    [cls |-> "v2.HackerNewsComment",
     id |-> id, author |-> author, timestamp |-> timestamp, text |-> text,
     sentiment |-> sentiment]

V2Story(id, title, url, domain, author, timestamp, points, rank, comments, sentiment, relationships) ==
    [cls |-> "v2.HackerNewsStory",
     id |-> id, title |-> title, url |-> url, domain |-> domain,
     author |-> author, timestamp |-> timestamp, points |-> points,
     rank |-> rank, comments |-> comments, sentiment |-> sentiment,
     relationships |-> relationships]

V2Data(version, timestamp, stories, metrics) ==
    [cls |-> "v2.HackerNewsData",
     version |-> version, timestamp |-> timestamp, stories |-> stories,
     metrics |-> metrics]

\* SentimentAnalysis(0.0, 0.0, [])
NeutralSentiment == SentimentAnalysis(JNum(0), JNum(0), EmptyList)

\* from_v1 without the "or" default: the sentiment is stored as given
Comment_from_v1_NoDefault(v1_comment, sentiment) ==
    V2Comment(v1_comment.id, v1_comment.author, v1_comment.timestamp,
              v1_comment.text, sentiment)

\* HackerNewsComment.from_v1: sentiment or SentimentAnalysis(0.0, 0.0, [])
Comment_from_v1(v1_comment, sentiment) ==
    V2Comment(v1_comment.id, v1_comment.author, v1_comment.timestamp,
              v1_comment.text,
              IF Truthy(sentiment) THEN sentiment ELSE NeutralSentiment)

----------------------------------------------------------------------------
(* hackernews_parser_v2.py *)

\* _parse_sentiment keeping the score within its conventional range, at most 1
V2_parse_sentiment_Clamped(sentiment_data) ==
    Construct(<<Subscript(sentiment_data, "score"),
                Subscript(sentiment_data, "confidence"),
                Subscript(sentiment_data, "aspects")>>,
              LAMBDA a : SentimentAnalysis(
                             IF a[1].t = "num" /\ a[1].v > 1 THEN JNum(1) ELSE a[1],
                             a[2], a[3]))

\* HackerNewsParserV2._parse_sentiment
V2_parse_sentiment(sentiment_data) ==
    Construct(<<Subscript(sentiment_data, "score"),
                Subscript(sentiment_data, "confidence"),
                Subscript(sentiment_data, "aspects")>>,
              LAMBDA a : SentimentAnalysis(a[1], a[2], a[3]))

\* HackerNewsParserV2._parse_relationships
V2_parse_relationships(relationships_data) ==
    Construct(<<Subscript(relationships_data, "comment_count"),
                Subscript(relationships_data, "engagement_score"),
                Subscript(relationships_data, "comment_sentiment_avg")>>,
              LAMBDA a : StoryRelationships(a[1], a[2], a[3]))

\* Lines 122-126 of _parse_comment: the sentiment handed to from_v1
V2_comment_sentiment(comment_data) ==
    Then(DictGet(comment_data, "sentiment", None),
         LAMBDA sentiment : IF Truthy(sentiment)
                            THEN V2_parse_sentiment(sentiment)
                            ELSE Ok(None))

\* HackerNewsParserV2._parse_comment
V2_parse_comment(comment_data) ==
    Construct(<<V1_parse_comment(comment_data),
                V2_comment_sentiment(comment_data)>>,
              LAMBDA a : Comment_from_v1(a[1], a[2]))

\* [self._parse_comment(comment) for comment in story_data.get("comments", [])]
V2_parse_comments(story_data) ==
    Then(DictGet(story_data, "comments", EmptyList),
         LAMBDA comments : Comprehension(comments, V2_parse_comment))

\* Lines 142-146 of _parse_story: the sentiment of a story
V2_story_sentiment(story_data) ==
    Then(DictGet(story_data, "sentiment", None),
         LAMBDA sentiment : IF Truthy(sentiment)
                            THEN V2_parse_sentiment(sentiment)
                            ELSE Ok(NeutralSentiment))

\* Relationships defaulted the way sentiment is: zeros in place of None
V2_story_relationships_Defaulted(story_data) ==
    Then(DictGet(story_data, "relationships", None),
         LAMBDA relationships : IF Truthy(relationships)
                                THEN V2_parse_relationships(relationships)
                                ELSE Ok(StoryRelationships(JNum(0), JNum(0),
                                                           JNum(0))))

\* Lines 147-151 of _parse_story: the relationships of a story
V2_story_relationships(story_data) ==
    Then(DictGet(story_data, "relationships", None),
         LAMBDA relationships : IF Truthy(relationships)
                                THEN V2_parse_relationships(relationships)
                                ELSE Ok(None))

\* _parse_story storing the points as the rank as well
V2_parse_story_RankFromPoints(story_data) ==
    Construct(<<V2_parse_comments(story_data),
                V2_story_sentiment(story_data),
                V2_story_relationships(story_data),
                Subscript(story_data, "id"),
                Subscript(story_data, "title"),
                Subscript(story_data, "url"),
                Subscript(story_data, "domain"),
                Subscript(story_data, "author"),
                Subscript(story_data, "timestamp"),
                Subscript(story_data, "points"),
                Subscript(story_data, "rank")>>,
              LAMBDA a : V2Story(a[4], a[5], a[6], a[7], a[8], a[9], a[10],
                                 a[10], a[1], a[2], a[3]))

\* _parse_story reading rank with .get("rank"): a missing rank is None
V2_parse_story_OptionalRank(story_data) ==
    Construct(<<V2_parse_comments(story_data),
                V2_story_sentiment(story_data),
                V2_story_relationships(story_data),
                Subscript(story_data, "id"),
                Subscript(story_data, "title"),
                Subscript(story_data, "url"),
                Subscript(story_data, "domain"),
                Subscript(story_data, "author"),
                Subscript(story_data, "timestamp"),
                Subscript(story_data, "points"),
                DictGet(story_data, "rank", None)>>,
              LAMBDA a : V2Story(a[4], a[5], a[6], a[7], a[8], a[9], a[10],
                                 a[11], a[1], a[2], a[3]))

\* HackerNewsParserV2._parse_story
V2_parse_story(story_data) ==
    Construct(<<V2_parse_comments(story_data),
                V2_story_sentiment(story_data),
                V2_story_relationships(story_data),
                Subscript(story_data, "id"),
                Subscript(story_data, "title"),
                Subscript(story_data, "url"),
                Subscript(story_data, "domain"),
                Subscript(story_data, "author"),
                Subscript(story_data, "timestamp"),
                Subscript(story_data, "points"),
                Subscript(story_data, "rank")>>,
              LAMBDA a : V2Story(a[4], a[5], a[6], a[7], a[8], a[9], a[10],
                                 a[11], a[1], a[2], a[3]))

\* [self._parse_story(story) for story in data["stories"]]
V2_parse_stories(d) ==
    Then(Subscript(d, "stories"),
         LAMBDA stories : Comprehension(stories, V2_parse_story))

\* DatasetMetrics(...) of lines 182-187
V2_parse_dataset_metrics(metrics) ==
    Construct(<<Subscript(metrics, "total_stories"),
                Subscript(metrics, "total_comments"),
                Subscript(metrics, "avg_sentiment"),
                Subscript(metrics, "engagement_score")>>,
              LAMBDA a : DatasetMetrics(a[1], a[2], a[3], a[4]))

\* Metrics defaulted to zeros in place of None
V2_parse_metrics_Defaulted(d) ==
    Then(DictGet(d, "metrics", None),
         LAMBDA metrics : IF Truthy(metrics)
                          THEN V2_parse_dataset_metrics(metrics)
                          ELSE Ok(DatasetMetrics(JNum(0), JNum(0), JNum(0),
                                                 JNum(0))))

\* Lines 180-189 of parse: the metrics of a dataset
V2_parse_metrics(d) ==
    Then(DictGet(d, "metrics", None),
         LAMBDA metrics : IF Truthy(metrics)
                          THEN V2_parse_dataset_metrics(metrics)
                          ELSE Ok(None))

\* Lines 179-195 of HackerNewsParserV2.parse
V2_parse_loaded(d) ==
    Construct(<<V2_parse_stories(d),
                V2_parse_metrics(d),
                Subscript(d, "version"),
                Subscript(d, "timestamp")>>,
              LAMBDA a : V2Data(a[3], a[4], a[1], a[2]))

\* HackerNewsParserV2.parse: the instance after the call and the outcome
V2_parse(self, d) ==
    [self |-> load_data(self, d).self,
     res |-> Then(load_data(self, d).res, V2_parse_loaded),
     read |-> load_data(self, d).read]

----------------------------------------------------------------------------
(* The package parser: parser/hackernews_parser_v2.py on *)
(* parser/hackernews_parser_v1.py                        *)

\* parser.HackerNewsParserV2._parse_comment: from_v1 is handed a
\* SentimentAnalysis, which is true, and keeps it
Legacy_parse_comment(comment_data) ==
    Construct(<<V1_parse_comment(comment_data),
                Then(Subscript(comment_data, "sentiment"), V2_parse_sentiment)>>,
              LAMBDA a : V2Comment(a[1].id, a[1].author, a[1].timestamp,
                                   a[1].text, a[2]))

\* parser.HackerNewsParserV1._parse_story run by super()._parse_story: the
\* comments go through self._parse_comment, the one of the subclass
Legacy_parse_v1_story(story_data) ==
    Construct(<<Subscript(story_data, "id"),
                Subscript(story_data, "title"),
                Subscript(story_data, "url"),
                Subscript(story_data, "domain"),
                Subscript(story_data, "author"),
                Subscript(story_data, "timestamp"),
                Subscript(story_data, "points"),
                Subscript(story_data, "rank"),
                Then(DictGet(story_data, "comments", EmptyList),
                     LAMBDA comments :
                         Comprehension(comments, Legacy_parse_comment))>>,
              LAMBDA a : V1Story(a[1], a[2], a[3], a[4], a[5], a[6], a[7], a[8],
                                 a[9]))

\* parser.HackerNewsParserV2._parse_story
Legacy_parse_story(story_data) ==
    Construct(<<Legacy_parse_v1_story(story_data),
                Then(Subscript(story_data, "sentiment"), V2_parse_sentiment),
                Then(Subscript(story_data, "relationships"),
                     V2_parse_relationships)>>,
              LAMBDA a : V2Story(a[1].id, a[1].title, a[1].url, a[1].domain,
                                 a[1].author, a[1].timestamp, a[1].points,
                                 a[1].rank, a[1].comments, a[2], a[3]))

\* parser.HackerNewsParserV2.parse on the content d of its data file
Legacy_parse_loaded(d) ==
    Construct(<<Then(Subscript(d, "stories"),
                     LAMBDA stories : Comprehension(stories, Legacy_parse_story)),
                Then(Subscript(d, "metrics"), V2_parse_dataset_metrics),
                Subscript(d, "version"),
                Subscript(d, "timestamp")>>,
              LAMBDA a : V2Data(a[3], a[4], a[1], a[2]))

----------------------------------------------------------------------------
(* api.py *)

\* A conversion that leaves out the fields whose value is None
RECURSIVE asdict_ExcludeNone(_)
asdict_ExcludeNone(x) ==
    IF IsDataclass(x)
    THEN JObj([k \in {f \in (DOMAIN x) \ {"cls"} : x[f] # None} |->
                  asdict_ExcludeNone(x[k])])
    ELSE IF x.t = "list"
    THEN JList([i \in DOMAIN x.v |-> asdict_ExcludeNone(x.v[i])])
    ELSE IF x.t = "obj"
    THEN JObj([k \in DOMAIN x.v |-> asdict_ExcludeNone(x.v[k])])
    ELSE x

\* dataclasses.asdict: a dataclass instance becomes a dict of its fields,
\* lists are converted element by element, other values are copied
RECURSIVE asdict(_)
asdict(x) ==
    IF IsDataclass(x)
    THEN JObj([k \in (DOMAIN x) \ {"cls"} |-> asdict(x[k])])
    ELSE IF x.t = "list" THEN JList([i \in DOMAIN x.v |-> asdict(x.v[i])])
    ELSE IF x.t = "obj" THEN JObj([k \in DOMAIN x.v |-> asdict(x.v[k])])
    ELSE x

\* HTTPException(status_code, detail)
HTTPException(status_code, detail) ==
    [status |-> status_code, detail |-> detail]

\* get_parser falling back to the newest parser for a version it does not know
get_parser_FallsBack(version) ==
    IF version = JStr(<<"1.0">>) THEN Ok("V1") ELSE Ok("V2")

\* get_parser: the class of the parser it constructs, or the HTTPException
get_parser(version) ==
    IF version = JStr(<<"1.0">>) THEN Ok("V1")
    ELSE IF version = JStr(<<"2.0">>) THEN Ok("V2")
    ELSE Raise(HTTPException(400,
            <<"Unsupported version: ">> \o FormatValue(version)
                \o <<". Supported versions: 1.0, 2.0">>))

\* data.get("version") of the request body (a dict)
RequestVersion(d) == DictGet(d, "version", None).val

\* Line 64 as a membership test: "version" not in data
VersionMissing_KeyOnly(d) == "version" \notin DOMAIN d.v

\* Line 64: not version
VersionMissing(d) == ~Truthy(RequestVersion(d))

\* The parser picked by the shape of the body: generation 2 where it has metrics
ParserParse_ByShape(cls, d) ==
    IF "metrics" \in DOMAIN d.v THEN V2_parse(NewParser(None), d).res
    ELSE V1_parse(NewParser(None), d).res

\* parser.parse(data) on the instance get_parser has just constructed
ParserParse(cls, d) ==
    IF cls = "V1" THEN V1_parse(NewParser(None), d).res
    ELSE V2_parse(NewParser(None), d).res

\* A parser failure answered as a client error
ParseResponse_ClientError(outcome) ==
    IF outcome.ok
    THEN [status |-> 200, body |-> asdict(outcome.val)]
    ELSE HTTPException(400, <<"Failed to parse data: ">> \o outcome.exc.msg)

\* Lines 74-75 and 80-82: the answer to a parse outcome
ParseResponse(outcome) ==
    IF outcome.ok
    THEN [status |-> 200, body |-> asdict(outcome.val)]
    ELSE HTTPException(500, <<"Failed to parse data: ">> \o outcome.exc.msg)

----------------------------------------------------------------------------
(* Request payloads: well-formed generation-1 and generation-2 datasets and *)
(* what a bounded number of defects (a key removed, a substructure set to  *)
(* null or to an empty object) makes of them                               *)

\* The keys whose value a defect may replace by null or by an empty object
Substructures == {"stories", "comments", "sentiment", "relationships", "metrics"}

\* The values one defect away from x
RECURSIVE Defective(_)
Defective(x) ==
    IF x.t = "obj"
    THEN UNION {
            {DelKey(x, k)}
            \cup (IF k \in Substructures
                  THEN {SetKey(x, k, None), SetKey(x, k, EmptyDict)}
                  ELSE {})
            \cup {SetKey(x, k, y) : y \in Defective(x.v[k])}
         : k \in DOMAIN x.v}
    ELSE IF x.t = "list"
    THEN UNION {{JList([x.v EXCEPT ![i] = y]) : y \in Defective(x.v[i])}
                : i \in DOMAIN x.v}
    ELSE {}

\* The values of "version" the router is tried on: strings (get_parser takes
\* version: str), null, and Absent, which removes the key
Absent == [t |-> "absent"]
VersionValues ==
    {Absent, None, JStr(<<>>), JStr(<<"1.0">>), JStr(<<"2.0">>), JStr(<<"3.0">>)}

WithVersion(d, version) ==
    IF version = Absent THEN DelKey(d, "version") ELSE SetKey(d, "version", version)

NoResponse == [status |-> 0]

\* The caller puts one more defect into the payload before using it
Damage ==
    /\ pc \in {"direct", "request"}
    /\ v1_data = NotRun
    /\ v2_data = NotRun
    /\ defects < MaxDefects
    /\ data' \in Defective(data)
    /\ defects' = defects + 1
    /\ UNCHANGED store
    /\ UNCHANGED <<v1_data, v2_data, pc, parser, parsed_data, response>>
    /\ UNCHANGED <<heap, history, requests>>

----------------------------------------------------------------------------
(* The parsers called directly, each on a fresh instance, as the tests do *)

Init ==
    /\ data \in WellFormed
    /\ defects = 0
    /\ store = <<>>
    /\ v1_data = NotRun
    /\ v2_data = NotRun
    /\ pc = "direct"
    /\ parser = "none"
    /\ parsed_data = NotRun
    /\ response = NoResponse
    /\ heap = <<>>
    /\ history = <<>>
    /\ requests = <<>>

\* HackerNewsParserV1().parse(data=data)
ParseV1 ==
    /\ pc = "direct"
    /\ v1_data = NotRun
    /\ v1_data' = V1_parse(NewParser(None), data).res
    /\ UNCHANGED store
    /\ UNCHANGED <<data, defects, v2_data, pc, parser, parsed_data, response>>
    /\ UNCHANGED <<heap, history, requests>>

\* HackerNewsParserV2().parse(data=data)
ParseV2 ==
    /\ pc = "direct"
    /\ v2_data = NotRun
    /\ v2_data' = V2_parse(NewParser(None), data).res
    /\ UNCHANGED store
    /\ UNCHANGED <<data, defects, v1_data, pc, parser, parsed_data, response>>
    /\ UNCHANGED <<heap, history, requests>>

Next == Damage \/ ParseV1 \/ ParseV2

Spec == Init /\ [][Next]_vars

----------------------------------------------------------------------------
(* POST /parse: parse_hackernews_data, one request per behaviour *)

InitApi ==
    /\ data \in {WithVersion(d, version) : d \in WellFormed, version \in VersionValues}
    /\ defects = 0
    /\ store = <<>>
    /\ v1_data = NotRun
    /\ v2_data = NotRun
    /\ pc = "request"
    /\ parser = "none"
    /\ parsed_data = NotRun
    /\ response = NoResponse
    /\ heap = <<>>
    /\ history = <<>>
    /\ requests = <<>>

\* Lines 63-67: the version field is read and checked
CheckVersion ==
    /\ pc = "request"
    /\ IF ~VersionMissing(data)
       THEN /\ pc' = "checked"
            /\ UNCHANGED response
       ELSE /\ pc' = "done"
            /\ response' = HTTPException(400,
                               <<"Missing 'version' field", " in request data">>)
    /\ UNCHANGED store
    /\ UNCHANGED <<data, defects, v1_data, v2_data, parser, parsed_data>>
    /\ UNCHANGED <<heap, history, requests>>

\* Line 70: get_parser constructs the parser, or raises
GetParser ==
    /\ pc = "checked"
    /\ IF get_parser(RequestVersion(data)).ok
       THEN /\ parser' = get_parser(RequestVersion(data)).val
            /\ pc' = "routed"
            /\ UNCHANGED response
       ELSE /\ response' = get_parser(RequestVersion(data)).exc
            /\ pc' = "done"
            /\ UNCHANGED parser
    /\ UNCHANGED store
    /\ UNCHANGED <<data, defects, v1_data, v2_data, parsed_data>>
    /\ UNCHANGED <<heap, history, requests>>

\* Lines 71-82: the parser parses the body; the outcome is answered
ParseAndRespond ==
    /\ pc = "routed"
    /\ parsed_data' = ParserParse(parser, data)
    /\ response' = ParseResponse(parsed_data')
    /\ pc' = "done"
    /\ UNCHANGED store
    /\ UNCHANGED <<data, defects, v1_data, v2_data, parser>>
    /\ UNCHANGED <<heap, history, requests>>

NextApi == Damage \/ CheckVersion \/ GetParser \/ ParseAndRespond

SpecApi == InitApi /\ [][NextApi]_vars

----------------------------------------------------------------------------
(* What the claims speak about *)

IsObj(x) == x.t = "obj"
IsList(x) == x.t = "list"
HasKeys(x, keys) == IsObj(x) /\ keys \subseteq DOMAIN x.v

CommentFields == {"id", "author", "timestamp", "text"}
StoryFields ==
    {"id", "title", "url", "domain", "author", "timestamp", "points", "rank"}
OptionalKeys == {"sentiment", "relationships", "metrics"}

\* Whether a key of keys occurs anywhere in x
RECURSIVE Mentions(_, _)
Mentions(x, keys) ==
    IF x.t = "obj"
    THEN \/ keys \cap DOMAIN x.v # {}
         \/ \E k \in DOMAIN x.v : Mentions(x.v[k], keys)
    ELSE IF x.t = "list" THEN \E i \in DOMAIN x.v : Mentions(x.v[i], keys)
    ELSE FALSE

\* No sentiment, relationships or metrics key anywhere
V1Shaped(d) == ~Mentions(d, OptionalKeys)

VersionIs(d, s) == "version" \in DOMAIN d.v /\ d.v.version = JStr(<<s>>)

\* The version key is absent, or its value is null or the empty string
VersionAbsentOrEmpty(d) ==
    "version" \in DOMAIN d.v => d.v.version \in {None, JStr(<<>>)}

Handled == pc = "done"

----------------------------------------------------------------------------
(* C1: the router hands a payload tagged "1.0" to the generation-1 parser   *)
(* and a payload tagged "2.0" to the generation-2 parser, whatever the      *)
(* shape of the rest of the payload: the parser constructed is of that      *)
(* generation, the outcome is that parser's outcome on the payload, and a   *)
(* dataset returned is of that generation's class.                          *)
C1_RoutedByVersionTag ==
    /\ (VersionIs(data, "1.0") /\ pc \in {"routed", "done"}) =>
          /\ parser = "V1"
          /\ Handled => /\ parsed_data = V1_parse(NewParser(None), data).res
                        /\ parsed_data.ok => parsed_data.val.cls = "v1.HackerNewsData"
    /\ (VersionIs(data, "2.0") /\ pc \in {"routed", "done"}) =>
          /\ parser = "V2"
          /\ Handled => /\ parsed_data = V2_parse(NewParser(None), data).res
                        /\ parsed_data.ok => parsed_data.val.cls = "v2.HackerNewsData"

\* A generation-1-shaped payload with a story, tagged "2.0", answered 200
\* by the generation-2 parser
C1_Witness ==
    /\ Handled
    /\ VersionIs(data, "2.0")
    /\ V1Shaped(data)
    /\ response.status = 200
    /\ parser = "V2"
    /\ Len(parsed_data.val.stories.v) > 0

(* C2: a payload whose version key is absent or empty is answered 400 with *)
(* a detail that contains "Missing 'version' field", whatever else it      *)
(* holds; no parser is constructed or invoked and the answer is never 500. *)
C2_MissingVersionIs400 ==
    VersionAbsentOrEmpty(data) =>
        /\ parser = "none"
        /\ parsed_data = NotRun
        /\ pc \in {"request", "done"}
        /\ response.status # 500
        /\ Handled => /\ response.status = 400
                      /\ response.detail[1] = "Missing 'version' field"

\* A payload with neither version nor stories, answered 400
C2_Witness ==
    /\ Handled
    /\ "version" \notin DOMAIN data.v
    /\ "stories" \notin DOMAIN data.v
    /\ response.status = 400

C4_StatusOfRequest ==
    /\ pc \in {"request", "checked", "routed", "done"}
    /\ ~Handled => response = NoResponse
    /\ Handled =>
          /\ response.status \in {200, 400, 500}
          /\ (VersionIs(data, "1.0") \/ VersionIs(data, "2.0")) =>
                /\ parsed_data # NotRun
                /\ response.status = 200 <=> parsed_data.ok
                /\ parsed_data.ok =>
                      response = [status |-> 200, body |-> asdict(parsed_data.val)]
                /\ ~parsed_data.ok =>
                      response = [status |-> 500,
                                  detail |-> <<"Failed to parse data: ">>
                                             \o parsed_data.exc.msg]

\* A payload with a supported version and a missing required key, answered 500
C4_Witness ==
    /\ Handled
    /\ VersionIs(data, "1.0")
    /\ ~parsed_data.ok
    /\ parsed_data.exc.type = "KeyError"
    /\ response.status = 500

----------------------------------------------------------------------------
(* The parsers called directly *)

RanV1 == v1_data # NotRun
RanV2 == v2_data # NotRun

WellFormedComment(c) == HasKeys(c, CommentFields)

\* The comments of an input story: those of its comments key, none without it
InputComments(s) == IF "comments" \in DOMAIN s.v THEN s.v.comments.v ELSE <<>>

WellFormedStory(s) ==
    /\ HasKeys(s, StoryFields)
    /\ "comments" \in DOMAIN s.v =>
          /\ IsList(s.v.comments)
          /\ \A j \in DOMAIN s.v.comments.v : WellFormedComment(s.v.comments.v[j])

\* A payload with every key generation 1 requires
WellFormedV1(d) ==
    /\ HasKeys(d, {"version", "timestamp", "stories"})
    /\ IsList(d.v.stories)
    /\ \A i \in DOMAIN d.v.stories.v : WellFormedStory(d.v.stories.v[i])

\* The dataset r carries the fields of payload d, in d's order
CarriesInput(r, d) ==
    /\ r.version = d.v.version
    /\ r.timestamp = d.v.timestamp
    /\ Len(r.stories.v) = Len(d.v.stories.v)
    /\ \A i \in DOMAIN d.v.stories.v :
          /\ \A k \in StoryFields : r.stories.v[i][k] = d.v.stories.v[i].v[k]
          /\ Len(r.stories.v[i].comments.v) = Len(InputComments(d.v.stories.v[i]))
          /\ \A j \in DOMAIN InputComments(d.v.stories.v[i]) :
                \A k \in CommentFields :
                    r.stories.v[i].comments.v[j][k]
                        = InputComments(d.v.stories.v[i])[j].v[k]

\* Two datasets agree on every field the generations share
SharedFieldsEqual(a, b) ==
    /\ a.version = b.version
    /\ a.timestamp = b.timestamp
    /\ Len(a.stories.v) = Len(b.stories.v)
    /\ \A i \in DOMAIN a.stories.v :
          /\ \A k \in StoryFields : a.stories.v[i][k] = b.stories.v[i][k]
          /\ Len(a.stories.v[i].comments.v) = Len(b.stories.v[i].comments.v)
          /\ \A j \in DOMAIN a.stories.v[i].comments.v :
                \A k \in CommentFields :
                    a.stories.v[i].comments.v[j][k] = b.stories.v[i].comments.v[j][k]

(* C5: generation 1 round-trips the required fields: on a well-formed      *)
(* payload parse succeeds and the dataset has the input's version and      *)
(* timestamp, its stories in number and order with their eight fields, and *)
(* each story's comments in number and order with their four fields.       *)
C5_V1RoundTrip ==
    (RanV1 /\ WellFormedV1(data)) =>
        /\ v1_data.ok
        /\ v1_data.val.cls = "v1.HackerNewsData"
        /\ CarriesInput(v1_data.val, data)

\* A well-formed payload of two stories, the first with two comments, parsed
C5_Witness ==
    /\ RanV1
    /\ WellFormedV1(data)
    /\ Len(data.v.stories.v) = 2
    /\ Len(InputComments(data.v.stories.v[1])) = 2
    /\ v1_data.ok

(* C6: on a payload both parsers accept, generation 1 and generation 2     *)
(* return the same version, timestamp and number of stories and, story by  *)
(* story, the same eight fields, number of comments and four fields of     *)
(* each comment.                                                           *)
C6_GenerationsAgree ==
    (RanV1 /\ RanV2 /\ v1_data.ok /\ v2_data.ok) =>
        SharedFieldsEqual(v1_data.val, v2_data.val)

\* A generation-2-shaped payload with two stories and a comment, accepted by both
C6_Witness ==
    /\ RanV1 /\ RanV2 /\ v1_data.ok /\ v2_data.ok
    /\ ~V1Shaped(data)
    /\ Len(v2_data.val.stories.v) = 2
    /\ Len(v2_data.val.stories.v[1].comments.v) > 0

(* C7: on a well-formed generation-1-shaped payload (no sentiment,         *)
(* relationships or metrics key anywhere) generation 2 succeeds, its       *)
(* shared fields are the ones generation 1 produces, every story and       *)
(* comment carries the neutral sentiment, every story's relationships is   *)
(* null and the dataset's metrics is null.                                 *)
C7_BackwardCompatible ==
    (RanV2 /\ WellFormedV1(data) /\ V1Shaped(data)) =>
        /\ v2_data.ok
        /\ CarriesInput(v2_data.val, data)
        /\ RanV1 => v1_data.ok /\ SharedFieldsEqual(v1_data.val, v2_data.val)
        /\ v2_data.val.metrics = None
        /\ \A i \in DOMAIN v2_data.val.stories.v :
              /\ v2_data.val.stories.v[i].sentiment = NeutralSentiment
              /\ v2_data.val.stories.v[i].relationships = None
              /\ \A j \in DOMAIN v2_data.val.stories.v[i].comments.v :
                    v2_data.val.stories.v[i].comments.v[j].sentiment
                        = NeutralSentiment

\* A generation-1-shaped payload with a story and a comment, parsed by both
C7_Witness ==
    /\ RanV1 /\ RanV2
    /\ WellFormedV1(data) /\ V1Shaped(data)
    /\ Len(data.v.stories.v) > 0
    /\ Len(InputComments(data.v.stories.v[1])) > 0
    /\ v2_data.ok

(* C8: generation 2 enforces generation 1's required fields: whenever      *)
(* generation 2 accepts a payload generation 1 accepts it too, and on a    *)
(* payload without any sentiment, relationships or metrics key the two     *)
(* accept or fail together.                                                *)
C8_SameRequiredFields ==
    (RanV1 /\ RanV2) =>
        /\ v2_data.ok => v1_data.ok
        /\ V1Shaped(data) => (v2_data.ok <=> v1_data.ok)

\* A generation-1-shaped payload lacking a required key: both parsers fail
C8_Witness ==
    /\ RanV1 /\ RanV2
    /\ V1Shaped(data)
    /\ ~WellFormedV1(data)
    /\ ~v1_data.ok /\ ~v2_data.ok

\* The value of key k of x is absent or null
AbsentOrNull(x, k) == k \in DOMAIN x.v => x.v[k] = None

\* The value of key k of x is absent, null or an object with all of keys
AbsentNullOrFull(x, k, keys) == AbsentOrNull(x, k) \/ HasKeys(x.v[k], keys)

SentimentKeys == {"score", "confidence", "aspects"}
RelationshipsKeys == {"comment_count", "engagement_score", "comment_sentiment_avg"}
MetricsKeys ==
    {"total_stories", "total_comments", "avg_sentiment", "engagement_score"}

\* A payload with every key generation 1 requires whose sentiment,
\* relationships and metrics are each absent, null or complete
WellFormedV2(d) ==
    /\ WellFormedV1(d)
    /\ AbsentNullOrFull(d, "metrics", MetricsKeys)
    /\ \A i \in DOMAIN d.v.stories.v :
          /\ AbsentNullOrFull(d.v.stories.v[i], "sentiment", SentimentKeys)
          /\ AbsentNullOrFull(d.v.stories.v[i], "relationships", RelationshipsKeys)
          /\ \A j \in DOMAIN InputComments(d.v.stories.v[i]) :
                AbsentNullOrFull(InputComments(d.v.stories.v[i])[j], "sentiment",
                                 SentimentKeys)

IsSentiment(x) == IsDataclass(x) /\ x.cls = "SentimentAnalysis"

(* C9: every story and comment of a dataset generation 2 returns has a     *)
(* sentiment that is not null; where the input's sentiment is absent or    *)
(* null it is exactly SentimentAnalysis(0.0, 0.0, []); and a payload whose *)
(* sentiments are absent or null (the rest being well-formed) is parsed    *)
(* without error.                                                          *)
C9_SentimentDefault ==
    RanV2 =>
        /\ WellFormedV2(data) => v2_data.ok
        /\ (v2_data.ok /\ IsList(data.v.stories)) =>
              \A i \in DOMAIN v2_data.val.stories.v :
                  /\ IsSentiment(v2_data.val.stories.v[i].sentiment)
                  /\ AbsentOrNull(data.v.stories.v[i], "sentiment") =>
                        v2_data.val.stories.v[i].sentiment = NeutralSentiment
                  /\ \A j \in DOMAIN v2_data.val.stories.v[i].comments.v :
                        /\ IsSentiment(v2_data.val.stories.v[i].comments.v[j].sentiment)
                        /\ AbsentOrNull(data.v.stories.v[i].v.comments.v[j], "sentiment") =>
                              v2_data.val.stories.v[i].comments.v[j].sentiment
                                  = NeutralSentiment

\* A parsed payload with a comment whose sentiment is null beside a story
\* whose sentiment is given
C9_Witness ==
    /\ RanV2 /\ v2_data.ok /\ IsList(data.v.stories)
    /\ \E i \in DOMAIN v2_data.val.stories.v :
          /\ ~AbsentOrNull(data.v.stories.v[i], "sentiment")
          /\ \E j \in DOMAIN v2_data.val.stories.v[i].comments.v :
                /\ "sentiment" \in DOMAIN data.v.stories.v[i].v.comments.v[j].v
                /\ data.v.stories.v[i].v.comments.v[j].v.sentiment = None

\* The payload with relationships and metrics populated wherever they are
\* absent or null
Populated(d) ==
    LET story(s) == IF AbsentOrNull(s, "relationships")
                    THEN SetKey(s, "relationships", SampleRelationships)
                    ELSE s
        stories == JList([i \in DOMAIN d.v.stories.v |-> story(d.v.stories.v[i])])
    IN SetKey(IF AbsentOrNull(d, "metrics")
              THEN SetKey(d, "metrics", SampleMetrics)
              ELSE d,
              "stories", stories)

\* A generation-2 dataset with its relationships and metrics left out
WithoutAggregates(r) ==
    [r EXCEPT !.metrics = None,
              !.stories = JList([i \in DOMAIN r.stories.v |->
                              [r.stories.v[i] EXCEPT !.relationships = None]])]

(* C10: in generation 2 an absent or null relationships yields a story     *)
(* whose relationships is null and an absent or null metrics a dataset     *)
(* whose metrics is null, never a default object; every other field of the *)
(* result is the same as for the payload with those substructures          *)
(* populated.                                                              *)
C10_NullRelationshipsAndMetrics ==
    (RanV2 /\ v2_data.ok /\ IsList(data.v.stories)) =>
        /\ AbsentOrNull(data, "metrics") => v2_data.val.metrics = None
        /\ \A i \in DOMAIN v2_data.val.stories.v :
              AbsentOrNull(data.v.stories.v[i], "relationships") =>
                  v2_data.val.stories.v[i].relationships = None
        /\ V2_parse(NewParser(None), Populated(data)).res.ok
        /\ WithoutAggregates(V2_parse(NewParser(None), Populated(data)).res.val)
               = WithoutAggregates(v2_data.val)

\* A parsed payload whose metrics is null and whose stories carry relationships
C10_Witness ==
    /\ RanV2 /\ v2_data.ok /\ IsList(data.v.stories)
    /\ "metrics" \in DOMAIN data.v /\ data.v.metrics = None
    /\ Len(data.v.stories.v) > 0
    /\ \A i \in DOMAIN data.v.stories.v :
          ~AbsentOrNull(data.v.stories.v[i], "relationships")

----------------------------------------------------------------------------
(* Sub-objects of generation 2 *)

\* The comments of an input story when they are a list, none otherwise
ListedComments(s) ==
    IF "comments" \in DOMAIN s.v /\ IsList(s.v.comments) THEN s.v.comments.v
    ELSE <<>>

\* The value of key k of x is an object (the empty one included) that lacks
\* one of keys
IncompleteObject(x, k, keys) ==
    /\ k \in DOMAIN x.v
    /\ IsObj(x.v[k])
    /\ ~(keys \subseteq DOMAIN x.v[k].v)

\* Generation 2 has failed with a missing-field error
V2MissingField == ~v2_data.ok /\ v2_data.exc.type = "KeyError"

\* The payload has a list of stories
HasStoryList(d) == "stories" \in DOMAIN d.v /\ IsList(d.v.stories)

(* C11: when the sentiment of a story or comment is a non-null object, the *)
(* empty object included, that lacks one of score, confidence, aspects,    *)
(* generation 2 fails with a missing-field error; the neutral sentiment    *)
(* is substituted only where the input's sentiment is absent or null.      *)
C11_SentimentObjectRequiresFields ==
    (RanV2 /\ HasStoryList(data)) =>
        /\ \A i \in DOMAIN data.v.stories.v :
              /\ IncompleteObject(data.v.stories.v[i], "sentiment", SentimentKeys)
                    => V2MissingField
              /\ \A j \in DOMAIN ListedComments(data.v.stories.v[i]) :
                    IncompleteObject(ListedComments(data.v.stories.v[i])[j],
                                     "sentiment", SentimentKeys)
                        => V2MissingField
        /\ v2_data.ok =>
              \A i \in DOMAIN v2_data.val.stories.v :
                  /\ v2_data.val.stories.v[i].sentiment = NeutralSentiment
                        => AbsentOrNull(data.v.stories.v[i], "sentiment")
                  /\ \A j \in DOMAIN v2_data.val.stories.v[i].comments.v :
                        v2_data.val.stories.v[i].comments.v[j].sentiment
                                = NeutralSentiment
                            => AbsentOrNull(ListedComments(data.v.stories.v[i])[j],
                                            "sentiment")

(* C12: when a story's relationships is a non-null object, the empty       *)
(* object included, that lacks one of comment_count, engagement_score,     *)
(* comment_sentiment_avg, or the dataset's metrics is a non-null object    *)
(* that lacks one of total_stories, total_comments, avg_sentiment,         *)
(* engagement_score, generation 2 fails with a missing-field error; a null *)
(* relationships or metrics results only where the key is absent or null.  *)
C12_AggregateObjectsRequireFields ==
    (RanV2 /\ HasStoryList(data)) =>
        /\ IncompleteObject(data, "metrics", MetricsKeys) => V2MissingField
        /\ \A i \in DOMAIN data.v.stories.v :
              IncompleteObject(data.v.stories.v[i], "relationships",
                               RelationshipsKeys)
                  => V2MissingField
        /\ v2_data.ok =>
              /\ v2_data.val.metrics = None => AbsentOrNull(data, "metrics")
              /\ \A i \in DOMAIN v2_data.val.stories.v :
                    v2_data.val.stories.v[i].relationships = None
                        => AbsentOrNull(data.v.stories.v[i], "relationships")

----------------------------------------------------------------------------
(* Required stories, optional comments *)

(* C13: on a dataset object without the stories key both parsers fail with *)
(* a missing-field error (KeyError) and return no dataset: generation 2    *)
(* with KeyError('stories'), generation 1 with KeyError('stories') when    *)
(* version and timestamp are present, since it reads those first.          *)
C13_StoriesRequired ==
    "stories" \notin DOMAIN data.v =>
        /\ RanV1 =>
              /\ ~v1_data.ok
              /\ v1_data.exc.type = "KeyError"
              /\ HasKeys(data, {"version", "timestamp"})
                    => v1_data = Raise(KeyError("stories"))
        /\ RanV2 => v2_data = Raise(KeyError("stories"))

\* A payload that lacks only the stories key, refused by both parsers
C13_Witness ==
    /\ RanV1 /\ RanV2
    /\ DOMAIN data.v = {"version", "timestamp"}
    /\ ~v1_data.ok /\ ~v2_data.ok

\* A story with the eight required fields and no comments key
WithoutComments(s) == HasKeys(s, StoryFields) /\ "comments" \notin DOMAIN s.v

\* The sentiment and relationships of a story are each absent, null or complete
WellFormedAnalysis(s) ==
    /\ AbsentNullOrFull(s, "sentiment", SentimentKeys)
    /\ AbsentNullOrFull(s, "relationships", RelationshipsKeys)

(* C14: a story with the eight required fields and no comments key is      *)
(* parsed by both parsers into a story with an empty comment sequence: the *)
(* absent key raises nothing (generation 2, which also reads sentiment and *)
(* relationships, succeeds when those are absent, null or complete), and   *)
(* in a dataset a parser returns such a story has no comments.             *)
C14_CommentsDefaultToEmpty ==
    HasStoryList(data) =>
        \A i \in DOMAIN data.v.stories.v :
            WithoutComments(data.v.stories.v[i]) =>
                /\ V1_parse_story(data.v.stories.v[i]).ok
                /\ V1_parse_story(data.v.stories.v[i]).val.comments = EmptyList
                /\ V2_parse_comments(data.v.stories.v[i]) = Ok(EmptyList)
                /\ WellFormedAnalysis(data.v.stories.v[i]) =>
                      /\ V2_parse_story(data.v.stories.v[i]).ok
                      /\ V2_parse_story(data.v.stories.v[i]).val.comments
                             = EmptyList
                /\ (RanV1 /\ v1_data.ok) =>
                      v1_data.val.stories.v[i].comments = EmptyList
                /\ (RanV2 /\ v2_data.ok) =>
                      v2_data.val.stories.v[i].comments = EmptyList

\* A payload whose first story has no comments key, parsed by both parsers
C14_Witness ==
    /\ RanV1 /\ RanV2
    /\ v1_data.ok /\ v2_data.ok
    /\ Len(data.v.stories.v) > 0
    /\ WithoutComments(data.v.stories.v[1])
    /\ v1_data.val.stories.v[1].comments = EmptyList
    /\ v2_data.val.stories.v[1].comments = EmptyList

----------------------------------------------------------------------------
(* The body of a 200 response *)

\* The JSON object json has exactly keys, each with the value of obj's field
SerializedAs(json, obj, keys) ==
    /\ IsObj(json)
    /\ DOMAIN json.v = keys
    /\ \A k \in keys : json.v[k] = obj[k]

\* JSON null for None, the object of its fields otherwise
NullOrSerializedAs(json, obj, keys) ==
    IF obj = None THEN json = None ELSE SerializedAs(json, obj, keys)

\* The JSON object jc is the generation-2 comment c
CommentBody(jc, c) ==
    /\ IsObj(jc)
    /\ DOMAIN jc.v = CommentFields \cup {"sentiment"}
    /\ \A k \in CommentFields : jc.v[k] = c[k]
    /\ SerializedAs(jc.v.sentiment, c.sentiment, SentimentKeys)

\* The JSON object js is the generation-2 story st
StoryBody(js, st) ==
    /\ IsObj(js)
    /\ DOMAIN js.v = StoryFields \cup {"comments", "sentiment", "relationships"}
    /\ \A k \in StoryFields : js.v[k] = st[k]
    /\ SerializedAs(js.v.sentiment, st.sentiment, SentimentKeys)
    /\ NullOrSerializedAs(js.v.relationships, st.relationships, RelationshipsKeys)
    /\ IsList(js.v.comments)
    /\ Len(js.v.comments.v) = Len(st.comments.v)
    /\ \A j \in DOMAIN st.comments.v :
          CommentBody(js.v.comments.v[j], st.comments.v[j])

\* The JSON object body is the generation-2 dataset r
DatasetBody(body, r) ==
    /\ IsObj(body)
    /\ DOMAIN body.v = {"version", "timestamp", "stories", "metrics"}
    /\ body.v.version = r.version
    /\ body.v.timestamp = r.timestamp
    /\ NullOrSerializedAs(body.v.metrics, r.metrics, MetricsKeys)
    /\ IsList(body.v.stories)
    /\ Len(body.v.stories.v) = Len(r.stories.v)
    /\ \A i \in DOMAIN r.stories.v : StoryBody(body.v.stories.v[i], r.stories.v[i])

(* C15: the body of a 200 response to a payload tagged "2.0" has a metrics *)
(* key, a sentiment and a relationships key on every story and a sentiment *)
(* key on every comment; a relationships or metrics that is null in the    *)
(* parsed dataset is there as JSON null, and every value is that of the    *)
(* corresponding field of the parsed dataset.                              *)
C15_V2BodyCarriesEveryField ==
    (Handled /\ VersionIs(data, "2.0") /\ response.status = 200) =>
        /\ parsed_data.ok
        /\ DatasetBody(response.body, parsed_data.val)

\* A 200 response whose metrics and first story's relationships are null and
\* whose first story has a comment
C15_Witness ==
    /\ Handled /\ VersionIs(data, "2.0") /\ response.status = 200
    /\ response.body.v.metrics = None
    /\ Len(response.body.v.stories.v) > 0
    /\ response.body.v.stories.v[1].v.relationships = None
    /\ Len(response.body.v.stories.v[1].v.comments.v) > 0

(* C16: the body of a 200 response to a payload tagged "1.0" has no        *)
(* metrics key, no sentiment or relationships key on any story and no      *)
(* sentiment key on any comment, also when the payload has those keys.     *)
C16_V1BodyHasNoV2Fields ==
    (Handled /\ VersionIs(data, "1.0") /\ response.status = 200) =>
        ~Mentions(response.body, OptionalKeys)

\* A payload with metrics, sentiment and relationships, tagged "1.0",
\* answered 200 with a story and a comment
C16_Witness ==
    /\ Handled /\ VersionIs(data, "1.0") /\ response.status = 200
    /\ "metrics" \in DOMAIN data.v
    /\ Len(data.v.stories.v) > 0
    /\ HasKeys(data.v.stories.v[1], {"sentiment", "relationships"})
    /\ Len(response.body.v.stories.v[1].v.comments.v) > 0
    /\ "sentiment" \in DOMAIN data.v.stories.v[1].v.comments.v[1].v

----------------------------------------------------------------------------
(* One parser instance and the parse calls made on it *)

\* HackerNewsParserV1(data_path) or HackerNewsParserV2(data_path)
ParserObject(cls, data_path) == [cls |-> cls, self |-> NewParser(data_path)]

\* obj.parse(d): the instance after the call and the outcome
Parse(obj, d) ==
    IF obj.cls = "V1" THEN V1_parse(obj.self, d) ELSE V2_parse(obj.self, d)

\* The datasets handed over inline: the samples, and each with a key removed
InlineData ==
    WellFormed \cup {DelKey(d, k) : d \in WellFormed,
                                   k \in {"version", "timestamp", "stories"}}

InitInstance ==
    /\ data \in InlineData
    /\ defects = 0
    /\ store = <<>>
    /\ v1_data = NotRun
    /\ v2_data = NotRun
    /\ pc = "instance"
    /\ parser = "none"
    /\ parsed_data = NotRun
    /\ response = NoResponse
    /\ heap \in {<<ParserObject(cls, data_path)>> :
                     cls \in {"V1", "V2"},
                     data_path \in {None, NoSuchFile}
                                   \cup {f.path : f \in DataFiles}}
    /\ history = <<>>
    /\ requests = <<>>

\* heap[1].parse(d), d being None for a call without data; history keeps
\* the argument, the outcome, whether the file was read and self._data as
\* the call left it
Call(d) ==
    /\ pc = "instance"
    /\ Len(history) < MaxCalls
    /\ heap' = [heap EXCEPT ![1].self = Parse(heap[1], d).self]
    /\ history' = Append(history, [given |-> d,
                                   res |-> Parse(heap[1], d).res,
                                   read |-> Parse(heap[1], d).read,
                                   stored |-> Parse(heap[1], d).self._data])
    /\ UNCHANGED store
    /\ UNCHANGED <<data, defects, v1_data, v2_data, pc, parser, parsed_data,
                   response, requests>>

\* parse(data=data)
ParseData == Call(data)

\* A dataset that is none of the samples and the content of no file
OtherData ==
    SetKey(SampleData(2, 1, 1), "timestamp", JStr(<<"d.timestamp", 1>>))

\* parse(data=OtherData)
ParseOther == Call(OtherData)

\* parse()
ParseStored == Call(None)

NextInstance == ParseData \/ ParseOther \/ ParseStored

SpecInstance == InitInstance /\ [][NextInstance]_vars

\* What a fresh instance of the class of heap[1] returns for parse(data=d)
FreshParse(d) == Parse(ParserObject(heap[1].cls, None), d).res

(* C17: a parse call without data on an instance constructed without a     *)
(* file path fails with the configuration error (ValueError) and returns   *)
(* no dataset, whatever calls were made on the instance before.            *)
C17_NoSourceIsValueError ==
    (pc = "instance" /\ heap[1].self.data_path = None) =>
        \A k \in DOMAIN history :
            history[k].given = None =>
                history[k].res = Raise(ValueError(
                    <<"data is required if data_path is not provided">>))

(* C18: a parser constructed with a file path and called as parse()        *)
(* returns what a fresh parser of the same generation returns for          *)
(* parse(data=J), J being the JSON content of the file; so does each       *)
(* further parse() as long as no data has been handed to the instance.     *)
C18_PathEqualsData ==
    pc = "instance" =>
        \A f \in DataFiles :
            f.path = heap[1].self.data_path =>
                \A k \in DOMAIN history :
                    (\A i \in 1..k : history[i].given = None) =>
                        history[k].res = FreshParse(f.json)

\* A generation-2 parser constructed with the path of a file with stories
\* has returned a dataset for parse()
C18_Witness ==
    /\ pc = "instance"
    /\ heap[1].cls = "V2"
    /\ \E f \in DataFiles : f.path = heap[1].self.data_path
    /\ Len(history) > 0
    /\ history[1].given = None
    /\ history[1].res.ok
    /\ Len(history[1].res.val.stories.v) > 0

(* C19: every parse(data=J) call returns what a fresh instance of the same *)
(* generation returns for J, a dataset or a failure, whatever the instance *)
(* was constructed with and whatever was called on it before; so two       *)
(* successive parse(data=J) calls on one instance return equal outcomes.   *)
C19_ParseIsIdempotent ==
    pc = "instance" =>
        /\ \A k \in DOMAIN history :
              history[k].given # None =>
                  history[k].res = FreshParse(history[k].given)
        /\ \A i, k \in DOMAIN history :
              (history[i].given # None /\ history[k].given = history[i].given)
                  => history[k].res = history[i].res

\* A parse() from a file followed by a parse(data=J) with another dataset
C19_Witness ==
    /\ pc = "instance"
    /\ Len(history) = 2
    /\ history[1].given = None
    /\ history[1].res.ok
    /\ history[2].given # None
    /\ history[2].res.ok
    /\ history[2].res # history[1].res

----------------------------------------------------------------------------
(* A server handling several POST /parse requests, their steps interleaved *)
(* line by line                                                            *)

\* The bodies posted: an empty and a full dataset and one without stories,
\* tagged "1.0" and "2.0", and a dataset with no version and with "3.0"
ServerPayloads ==
    {WithVersion(d, version) :
        d \in {SampleData(1, 0, 0), SampleData(2, MaxStories, MaxComments),
               DelKey(SampleData(1, 0, 0), "stories")},
        version \in {JStr(<<"1.0">>), JStr(<<"2.0">>)}}
    \cup {WithVersion(SampleData(1, 0, 0), version) :
            version \in {Absent, JStr(<<"3.0">>)}}

\* A request that has just arrived: ref is the parser instance it holds (an
\* index of heap, 0 for none), local the value _load_data returned to parse
NewRequest(payload) ==
    [payload |-> payload, pc |-> "request", ref |-> 0, local |-> None,
     response |-> NoResponse]

\* One parser instance per version, kept and handed to every request
Allocate_PerVersion(h, cls) ==
    IF \E i \in DOMAIN h : h[i].cls = cls
    THEN [heap |-> h, ref |-> CHOOSE i \in DOMAIN h : h[i].cls = cls]
    ELSE [heap |-> Append(h, ParserObject(cls, None)), ref |-> Len(h) + 1]

\* return HackerNewsParserV1() / HackerNewsParserV2(): a new instance
Allocate(h, cls) ==
    [heap |-> Append(h, ParserObject(cls, None)), ref |-> Len(h) + 1]

InitServer ==
    /\ data = None
    /\ defects = 0
    /\ store = <<>>
    /\ v1_data = NotRun
    /\ v2_data = NotRun
    /\ pc = "server"
    /\ parser = "none"
    /\ parsed_data = NotRun
    /\ response = NoResponse
    /\ heap = <<>>
    /\ history = <<>>
    /\ requests \in [1..MaxRequests -> {NewRequest(p) : p \in ServerPayloads}]

\* api.py 63-67 for request r
ServeCheckVersion(r) ==
    /\ pc = "server"
    /\ requests[r].pc = "request"
    /\ requests' =
          IF ~VersionMissing(requests[r].payload)
          THEN [requests EXCEPT ![r].pc = "checked"]
          ELSE [requests EXCEPT
                  ![r].pc = "done",
                  ![r].response = HTTPException(400,
                      <<"Missing 'version' field", " in request data">>)]
    /\ UNCHANGED heap
    /\ UNCHANGED store
    /\ UNCHANGED <<data, defects, v1_data, v2_data, pc, parser, parsed_data,
                   response, history>>

\* api.py 70 for request r: get_parser constructs the parser, or raises
ServeGetParser(r) ==
    /\ pc = "server"
    /\ requests[r].pc = "checked"
    /\ IF get_parser(RequestVersion(requests[r].payload)).ok
       THEN /\ heap' = Allocate(heap,
                    get_parser(RequestVersion(requests[r].payload)).val).heap
            /\ requests' = [requests EXCEPT
                  ![r].pc = "routed",
                  ![r].ref = Allocate(heap,
                      get_parser(RequestVersion(requests[r].payload)).val).ref]
       ELSE /\ requests' = [requests EXCEPT
                  ![r].pc = "done",
                  ![r].response =
                      get_parser(RequestVersion(requests[r].payload)).exc]
            /\ UNCHANGED heap
    /\ UNCHANGED store
    /\ UNCHANGED <<data, defects, v1_data, v2_data, pc, parser, parsed_data,
                   response, history>>

\* _load_data lines 75-76 for request r: self._data = data
ServeStore(r) ==
    /\ pc = "server"
    /\ requests[r].pc = "routed"
    /\ heap' = [heap EXCEPT ![requests[r].ref].self._data = requests[r].payload]
    /\ requests' = [requests EXCEPT ![r].pc = "stored"]
    /\ UNCHANGED store
    /\ UNCHANGED <<data, defects, v1_data, v2_data, pc, parser, parsed_data,
                   response, history>>

\* _load_data line 82 for request r: return self._data
ServeLoad(r) ==
    /\ pc = "server"
    /\ requests[r].pc = "stored"
    /\ requests' = [requests EXCEPT
          ![r].pc = "loaded",
          ![r].local = heap[requests[r].ref].self._data]
    /\ UNCHANGED heap
    /\ UNCHANGED store
    /\ UNCHANGED <<data, defects, v1_data, v2_data, pc, parser, parsed_data,
                   response, history>>

\* The rest of parse and api.py 74-82 for request r
ServeRespond(r) ==
    /\ pc = "server"
    /\ requests[r].pc = "loaded"
    /\ requests' = [requests EXCEPT
          ![r].pc = "done",
          ![r].response =
              ParseResponse(IF heap[requests[r].ref].cls = "V1"
                            THEN V1_parse_loaded(requests[r].local)
                            ELSE V2_parse_loaded(requests[r].local))]
    /\ UNCHANGED heap
    /\ UNCHANGED store
    /\ UNCHANGED <<data, defects, v1_data, v2_data, pc, parser, parsed_data,
                   response, history>>

NextServer ==
    \/ \E r \in DOMAIN requests : ServeCheckVersion(r)
    \/ \E r \in DOMAIN requests : ServeGetParser(r)
    \/ \E r \in DOMAIN requests : ServeStore(r)
    \/ \E r \in DOMAIN requests : ServeLoad(r)
    \/ \E r \in DOMAIN requests : ServeRespond(r)

SpecServer == InitServer /\ [][NextServer]_vars

\* parse_hackernews_data on one request handled alone
Handle(payload) ==
    IF VersionMissing(payload)
    THEN HTTPException(400, <<"Missing 'version' field", " in request data">>)
    ELSE IF ~get_parser(RequestVersion(payload)).ok
    THEN get_parser(RequestVersion(payload)).exc
    ELSE ParseResponse(ParserParse(get_parser(RequestVersion(payload)).val,
                                   payload))

(* C20: the answer to a request is a function of its payload alone: it is  *)
(* the answer the handler gives to that payload when it runs alone,        *)
(* whatever requests were handled before or are handled at the same time;  *)
(* each request that got a parser holds an instance no other request      *)
(* holds.                                                                  *)
C20_StatelessRequests ==
    pc = "server" =>
        /\ \A r \in DOMAIN requests :
              requests[r].pc = "done" =>
                  requests[r].response = Handle(requests[r].payload)
        /\ \A r, q \in DOMAIN requests :
              (r # q /\ requests[r].ref # 0) => requests[r].ref # requests[q].ref

\* Two answered requests for the same version with different payloads and
\* different answers, the parser of the first still holding its payload
C20_Witness ==
    /\ pc = "server"
    /\ requests[1].pc = "done" /\ requests[2].pc = "done"
    /\ requests[1].ref # 0 /\ requests[2].ref # 0
    /\ heap[requests[1].ref].cls = heap[requests[2].ref].cls
    /\ requests[1].payload # requests[2].payload
    /\ requests[1].response # requests[2].response
    /\ requests[1].response.status = 200
    /\ heap[requests[1].ref].self._data = requests[1].payload

----------------------------------------------------------------------------
(* Analytical fields *)

\* Where key k of the input x holds a non-null, non-empty object, each of keys
\* has in obj the value it has there
PassedThrough(x, k, obj, keys) ==
    (k \in DOMAIN x.v /\ x.v[k] \notin {None, EmptyDict}) =>
        \A f \in keys : obj[f] = x.v[k].v[f]

(* C21: in a dataset generation 2 returns, the score, confidence and       *)
(* aspects of each parsed sentiment, the three fields of each parsed       *)
(* relationships and the four fields of the metrics are the input values;  *)
(* a payload whose sub-objects are complete is accepted whatever those     *)
(* values are: a comment_count that is not the number of comments, totals  *)
(* that are not the parsed counts, a score or confidence above 1.          *)
C21_AnalyticsPassedThrough ==
    (RanV2 /\ HasStoryList(data)) =>
        /\ WellFormedV2(data) => v2_data.ok
        /\ v2_data.ok =>
              /\ PassedThrough(data, "metrics", v2_data.val.metrics, MetricsKeys)
              /\ \A i \in DOMAIN v2_data.val.stories.v :
                    /\ PassedThrough(data.v.stories.v[i], "sentiment",
                                     v2_data.val.stories.v[i].sentiment,
                                     SentimentKeys)
                    /\ PassedThrough(data.v.stories.v[i], "relationships",
                                     v2_data.val.stories.v[i].relationships,
                                     RelationshipsKeys)
                    /\ \A j \in DOMAIN v2_data.val.stories.v[i].comments.v :
                          PassedThrough(ListedComments(data.v.stories.v[i])[j],
                                        "sentiment",
                                        v2_data.val.stories.v[i].comments.v[j].sentiment,
                                        SentimentKeys)

\* A parsed dataset whose totals and whose first story's comment_count differ
\* from the parsed counts, with a confidence and a comment's score above 1
C21_Witness ==
    /\ RanV2 /\ v2_data.ok
    /\ v2_data.val.metrics # None
    /\ Len(v2_data.val.stories.v) > 0
    /\ v2_data.val.metrics.total_stories.v # Len(v2_data.val.stories.v)
    /\ v2_data.val.stories.v[1].relationships # None
    /\ v2_data.val.stories.v[1].relationships.comment_count.v
           # Len(v2_data.val.stories.v[1].comments.v)
    /\ v2_data.val.stories.v[1].sentiment.confidence.v > 1
    /\ Len(v2_data.val.stories.v[1].comments.v) > 0
    /\ v2_data.val.stories.v[1].comments.v[1].sentiment.score.v > 1

----------------------------------------------------------------------------
(* Reading the file *)

\* The calls among the first k that read the file
FileReads(k) == {i \in 1..k : history[i].read}

----------------------------------------------------------------------------
(* What a missing-field error says *)

\* The dataset d with key k removed from its story i
StoryLacking(d, i, k) ==
    SetKey(d, "stories",
           JList([d.v.stories.v EXCEPT ![i] = DelKey(@, k)]))

\* The error names the key k
NamesKey(r, k) ==
    ~r.ok /\ r.exc.type = "KeyError" /\ \E n \in DOMAIN r.exc.msg : r.exc.msg[n] = k

(* C23: when a story of an otherwise complete dataset lacks one of its     *)
(* eight fields, the error of either parser names the key and identifies   *)
(* the story: the same key missing from another story of the dataset       *)
(* gives a different error.                                                *)
C23_ErrorNamesStoryAndKey ==
    \A base \in WellFormed : \A i, j \in DOMAIN base.v.stories.v :
        \A k \in StoryFields :
            (i # j /\ data = StoryLacking(base, i, k)) =>
                /\ RanV1 =>
                      /\ NamesKey(v1_data, k)
                      /\ v1_data # V1_parse(NewParser(None),
                                            StoryLacking(base, j, k)).res
                /\ RanV2 =>
                      /\ NamesKey(v2_data, k)
                      /\ v2_data # V2_parse(NewParser(None),
                                            StoryLacking(base, j, k)).res

----------------------------------------------------------------------------
(* A payload whose aspects lists are objects of the caller *)

\* A reference to the list object at address a
Ref(a) == [t |-> "ref", addr |-> a]

\* The address of the aspects list of story i (j = 0) or of its comment j
AspectsAddr(i, j) == 10 * i + j

\* The sentiment object with its aspects list held by reference
RefAspects(x, a) ==
    IF "sentiment" \in DOMAIN x.v
    THEN SetKey(x, "sentiment", SetKey(x.v.sentiment, "aspects", Ref(a)))
    ELSE x

\* The dataset d with every aspects list held by reference
Referenced(d) ==
    SetKey(d, "stories", JList([i \in DOMAIN d.v.stories.v |->
        SetKey(RefAspects(d.v.stories.v[i], AspectsAddr(i, 0)), "comments",
               JList([j \in DOMAIN d.v.stories.v[i].v.comments.v |->
                   RefAspects(d.v.stories.v[i].v.comments.v[j],
                              AspectsAddr(i, j))]))]))

\* The list objects Referenced(d) refers to
StoreOf(d) ==
    [a \in {AspectsAddr(i, 0) : i \in DOMAIN d.v.stories.v}
         \cup {AspectsAddr(p[1], p[2]) :
                  p \in {q \in (DOMAIN d.v.stories.v) \X (1..MaxComments) :
                            q[2] \in DOMAIN d.v.stories.v[q[1]].v.comments.v}}
     |-> IF a % 10 = 0
         THEN d.v.stories.v[a \div 10].v.sentiment.v.aspects.v
         ELSE d.v.stories.v[a \div 10].v.comments.v[a % 10].v.sentiment.v.aspects.v]

\* The generation-2 samples
AnalysedSamples == {SampleData(2, ns, nc) : ns \in 0..MaxStories,
                                            nc \in 0..MaxComments}

InitAlias ==
    \E d \in AnalysedSamples :
        /\ data = Referenced(d)
        /\ store = StoreOf(d)
        /\ defects = 0
        /\ v1_data = NotRun
        /\ v2_data = NotRun
        /\ pc = "direct"
        /\ parser = "none"
        /\ parsed_data = NotRun
        /\ response = NoResponse
        /\ heap = <<>>
        /\ history = <<>>
        /\ requests = <<>>

\* After a parse returned, the caller changes one of its lists in place:
\* aspects.append("edited") or aspects.clear()
MutateInput ==
    /\ pc = "direct"
    /\ RanV1 \/ RanV2
    /\ defects < MaxMutations
    /\ \E a \in DOMAIN store :
          \E q \in {Append(store[a], JStr(<<"edited">>)), <<>>} :
              /\ q # store[a]
              /\ store' = [store EXCEPT ![a] = q]
    /\ defects' = defects + 1
    /\ UNCHANGED <<data, v1_data, v2_data, pc, parser, parsed_data, response>>
    /\ UNCHANGED <<heap, history, requests>>

NextAlias == ParseV1 \/ ParseV2 \/ MutateInput

SpecAlias == InitAlias /\ [][NextAlias]_vars

\* The addresses a value refers to
RECURSIVE Refs(_)
Refs(x) ==
    IF IsDataclass(x)
    THEN UNION {Refs(x[k]) : k \in (DOMAIN x) \ {"cls"}}
    ELSE IF x.t = "ref" THEN {x.addr}
    ELSE IF x.t = "list" THEN UNION {Refs(x.v[i]) : i \in DOMAIN x.v}
    ELSE IF x.t = "obj" THEN UNION {Refs(x.v[k]) : k \in DOMAIN x.v}
    ELSE {}

\* The value x as read with the list objects st
RECURSIVE Resolve(_, _)
Resolve(x, st) ==
    IF IsDataclass(x)
    THEN [k \in DOMAIN x |-> IF k = "cls" THEN x[k] ELSE Resolve(x[k], st)]
    ELSE IF x.t = "ref" THEN JList(st[x.addr])
    ELSE IF x.t = "list" THEN JList([i \in DOMAIN x.v |-> Resolve(x.v[i], st)])
    ELSE IF x.t = "obj" THEN JObj([k \in DOMAIN x.v |-> Resolve(x.v[k], st)])
    ELSE x

\* The list objects as they were when the payload was handed over
StoreAtCall ==
    StoreOf(CHOOSE d \in AnalysedSamples : Referenced(d) = data)

(* C24: a dataset a parser returned holds none of the caller's list        *)
(* objects, so it reads the same after the caller changed its payload in   *)
(* place as it did when it was returned.                                   *)
C24_OutputOwnsItsObjects ==
    (store # <<>> /\ RanV2 /\ v2_data.ok) =>
        /\ Refs(v2_data.val) \cap DOMAIN store = {}
        /\ Resolve(v2_data.val, store) = Resolve(v2_data.val, StoreAtCall)

----------------------------------------------------------------------------
(* The two generation-2 implementations on one payload *)

\* parser.HackerNewsParserV2(path).parse(), the file at path holding data
ParseLegacy ==
    /\ pc = "direct"
    /\ parsed_data = NotRun
    /\ parsed_data' = Legacy_parse_loaded(data)
    /\ UNCHANGED store
    /\ UNCHANGED <<data, defects, v1_data, v2_data, pc, parser, response>>
    /\ UNCHANGED <<heap, history, requests>>

NextLegacy == Damage \/ ParseV2 \/ ParseLegacy

SpecLegacy == Init /\ [][NextLegacy]_vars

(* C25: on every payload the generation-2 parser of package                *)
(* hackernews_parser and the one of package parser both fail or both       *)
(* return a dataset, and then datasets with the same fields.               *)
C25_ImplementationsAgree ==
    (pc = "direct" /\ RanV2 /\ parsed_data # NotRun) =>
        /\ v2_data.ok = parsed_data.ok
        /\ v2_data.ok => v2_data.val = parsed_data.val

----------------------------------------------------------------------------
(* Inline data and the stored input *)

\* The calls before call k that were given data
InlineBefore(k) == {i \in 1..(k - 1) : history[i].given # None}

\* The latest of a non-empty set of calls
Latest(calls) == CHOOSE i \in calls : \A j \in calls : j <= i

(* C26: parse(data=X) parses X, reads no file and leaves X stored in the   *)
(* instance, with or without a path; a later parse() on the instance       *)
(* returns what parsing the most recent inline X returns, not the file's   *)
(* dataset; when the first call of an instance is given data the file is   *)
(* never read.                                                             *)
C26_InlineDataIsSticky ==
    pc = "instance" =>
        \A k \in DOMAIN history :
            /\ history[k].given # None =>
                  /\ history[k].res = FreshParse(history[k].given)
                  /\ ~history[k].read
                  /\ history[k].stored = history[k].given
            /\ (history[k].given = None /\ InlineBefore(k) # {}) =>
                  history[k].res =
                      FreshParse(history[Latest(InlineBefore(k))].given)
            /\ history[1].given # None => ~history[k].read

\* On an instance constructed with the path of a file, two different
\* datasets were handed over in turn and parse() then returned the dataset
\* of the second, which is neither the first's nor the file's
C26_Witness ==
    /\ pc = "instance"
    /\ Len(history) = 3
    /\ \E f \in DataFiles :
          /\ f.path = heap[1].self.data_path
          /\ FreshParse(f.json) # history[3].res
    /\ history[1].given # None
    /\ history[2].given # None
    /\ history[3].given = None
    /\ history[3].res.ok
    /\ history[3].res = history[2].res
    /\ history[3].res # history[1].res

(* C27: a parse(data=X) that fails with a missing-key error leaves         *)
(* self._data as it was before the call, and a parse() that follows        *)
(* returns what it would have returned had the failed call not been made.  *)
C27_FailedCallLeavesCache ==
    pc = "instance" =>
        \A k \in DOMAIN history :
            (/\ history[k].given # None
             /\ ~history[k].res.ok
             /\ history[k].res.exc.type = "KeyError") =>
                /\ history[k].stored =
                      (IF k = 1 THEN None ELSE history[k - 1].stored)
                /\ (k < Len(history) /\ history[k + 1].given = None) =>
                      history[k + 1].res =
                          Parse([heap[1] EXCEPT !.self._data =
                                     IF k = 1 THEN None
                                     ELSE history[k - 1].stored], None).res

----------------------------------------------------------------------------
(* Payloads that lack more than one required key *)

\* The samples without their version key; Damage adds a further defect
InitUntagged ==
    \E d \in WellFormed :
        /\ data = DelKey(d, "version")
        /\ defects = 0
        /\ store = <<>>
        /\ v1_data = NotRun
        /\ v2_data = NotRun
        /\ pc = "direct"
        /\ parser = "none"
        /\ parsed_data = NotRun
        /\ response = NoResponse
        /\ heap = <<>>
        /\ history = <<>>
        /\ requests = <<>>

SpecUntagged == InitUntagged /\ [][Next]_vars

\* The keys both generations require
SharedKeys == {"version", "timestamp", "stories"} \cup StoryFields \cup CommentFields

\* The parser failed on a missing key that both generations require
MissesSharedKey(r) ==
    ~r.ok /\ r.exc.type = "KeyError" /\ \E k \in SharedKeys : r.exc = KeyError(k)

(* C28: when both parsers fail on a payload because keys they both require *)
(* are missing, they report the same key: the one generation 1 reports,    *)
(* which is the first missing in its order version, timestamp, stories,    *)
(* then per story the eight fields and the comments' four.                 *)
C28_SameFirstError ==
    (RanV1 /\ RanV2 /\ MissesSharedKey(v1_data) /\ MissesSharedKey(v2_data)) =>
        v2_data = v1_data

----------------------------------------------------------------------------
(* A null comments value *)

\* The story has a comments key and its value is null
NullComments(story) ==
    IsObj(story) /\ "comments" \in DOMAIN story.v /\ story.v.comments = None

(* C29: a request tagged "1.0" or "2.0" with a story whose comments value  *)
(* is null is answered 500: the parser of either generation fails on it    *)
(* and returns no dataset, with a TypeError when the story is the first    *)
(* defect met; a story without the comments key has no comments in the     *)
(* dataset returned.                                                       *)
C29_NullCommentsFail ==
    (/\ Handled
     /\ VersionIs(data, "1.0") \/ VersionIs(data, "2.0")
     /\ HasStoryList(data)) =>
        \A i \in DOMAIN data.v.stories.v :
            /\ NullComments(data.v.stories.v[i]) =>
                  /\ ~parsed_data.ok
                  /\ response.status = 500
                  /\ defects = 1 => parsed_data.exc.type = "TypeError"
                  /\ ~V1_parse_comments(data.v.stories.v[i]).ok
                  /\ ~V2_parse_comments(data.v.stories.v[i]).ok
            /\ (WithoutComments(data.v.stories.v[i]) /\ parsed_data.ok) =>
                  parsed_data.val.stories.v[i].comments = EmptyList

\* A generation-2 request with a story whose comments are null, answered 500
C29_Witness ==
    /\ Handled
    /\ VersionIs(data, "2.0")
    /\ HasStoryList(data)
    /\ \E i \in DOMAIN data.v.stories.v : NullComments(data.v.stories.v[i])
    /\ parsed_data.exc.type = "TypeError"
    /\ response.status = 500

----------------------------------------------------------------------------
(* Threads calling parse(data=...) on one shared instance *)

\* The datasets the threads hand over
ThreadPayloads ==
    {SampleData(1, 0, 0), SampleData(1, 1, 1), SampleData(2, 1, 0),
     SampleData(2, MaxStories, MaxComments),
     DelKey(SampleData(1, 0, 0), "stories")}

\* A thread about to call heap[1].parse(data=payload): local is the value
\* _load_data returns to parse, response the outcome of the call
NewThread(payload) ==
    [payload |-> payload, pc |-> "call", ref |-> 1, local |-> None,
     response |-> NotRun]

InitShared ==
    /\ data = None
    /\ defects = 0
    /\ store = <<>>
    /\ v1_data = NotRun
    /\ v2_data = NotRun
    /\ pc = "threads"
    /\ parser = "none"
    /\ parsed_data = NotRun
    /\ response = NoResponse
    /\ heap \in {<<ParserObject(cls, None)>> : cls \in {"V1", "V2"}}
    /\ history = <<>>
    /\ requests \in [1..MaxRequests -> {NewThread(p) : p \in ThreadPayloads}]

\* _load_data lines 75-76 in thread t: self._data = data
ThreadStore(t) ==
    /\ pc = "threads"
    /\ requests[t].pc = "call"
    /\ heap' = [heap EXCEPT ![requests[t].ref].self._data = requests[t].payload]
    /\ requests' = [requests EXCEPT ![t].pc = "stored"]
    /\ UNCHANGED store
    /\ UNCHANGED <<data, defects, v1_data, v2_data, pc, parser, parsed_data,
                   response, history>>

\* _load_data line 82 in thread t: return self._data
ThreadLoad(t) ==
    /\ pc = "threads"
    /\ requests[t].pc = "stored"
    /\ requests' = [requests EXCEPT
          ![t].pc = "loaded",
          ![t].local = heap[requests[t].ref].self._data]
    /\ UNCHANGED heap
    /\ UNCHANGED store
    /\ UNCHANGED <<data, defects, v1_data, v2_data, pc, parser, parsed_data,
                   response, history>>

\* The rest of parse in thread t, on what _load_data returned
ThreadParse(t) ==
    /\ pc = "threads"
    /\ requests[t].pc = "loaded"
    /\ requests' = [requests EXCEPT
          ![t].pc = "done",
          ![t].response = IF heap[requests[t].ref].cls = "V1"
                          THEN V1_parse_loaded(requests[t].local)
                          ELSE V2_parse_loaded(requests[t].local)]
    /\ UNCHANGED heap
    /\ UNCHANGED store
    /\ UNCHANGED <<data, defects, v1_data, v2_data, pc, parser, parsed_data,
                   response, history>>

NextShared ==
    \/ \E t \in DOMAIN requests : ThreadStore(t)
    \/ \E t \in DOMAIN requests : ThreadLoad(t)
    \/ \E t \in DOMAIN requests : ThreadParse(t)

SpecShared == InitShared /\ [][NextShared]_vars

(* C30: when threads call parse(data=...) on one instance, each call       *)
(* returns what a fresh instance returns for its own argument, however     *)
(* the writes and reads of self._data interleave.                          *)
C30_SharedInstanceIsSafe ==
    pc = "threads" =>
        \A t \in DOMAIN requests :
            requests[t].pc = "done" =>
                requests[t].response = FreshParse(requests[t].payload)

====
